---- MODULE Spec2Model ----
(***************************************************************************)
(* Model of the INEGI dashboard pipeline of src/app.py: the filter         *)
(* normaliser _validate_filter, the memoised fetcher _fetch_inegi_series   *)
(* (functools.lru_cache, maxsize 256), get_data and the two presentation   *)
(* handlers api_series and actualizar.                                     *)
(*                                                                         *)
(* A Python str is a sequence of one-character strings, so that            *)
(* str.strip, the "in" test, strptime and the >= comparison are computed   *)
(* character by character.                                                 *)
(***************************************************************************)
EXTENDS Integers, Sequences, FiniteSets, TLC

VARIABLES
    padsYear,   \* whether the C library's strftime pads %Y to four digits
    typed,      \* text of the dashboard's "filtro" input box
    validated,  \* result of the last _validate_filter(typed) call, or NoCall
    cache,      \* the lru_cache of _fetch_inegi_series, least recent first
    recency,    \* every key ever looked up, least recently used first
    thr,        \* per worker thread: idle, or blocked in rq.get
    last        \* the request that finished last, with what it returned

vars == <<padsYear, typed, validated, cache, recency, thr, last>>

-----------------------------------------------------------------------------
(* Python str helpers *)

Digits == <<"0", "1", "2", "3", "4", "5", "6", "7", "8", "9">>

DigitSet == {Digits[i] : i \in 1..10}

IsDigit(c) == c \in DigitSet

DigitValues == [c \in DigitSet |-> (CHOOSE i \in 1..10 : Digits[i] = c) - 1]

DigitVal(c) == DigitValues[c]

Whitespace == {" ", "\t", "\n"}

\* ord() of the characters the model uses
Ord(c) ==
    CASE c = "\t" -> 9
      [] c = "\n" -> 10
      [] c = " " -> 32
      [] c = "\"" -> 34
      [] c = "-" -> 45
      [] c = "/" -> 47
      [] IsDigit(c) -> 48 + DigitVal(c)
      [] c = "A" -> 65
      [] c = "E" -> 69
      [] c = "I" -> 73
      [] c = "K" -> 75
      [] c = "N" -> 78
      [] c = "O" -> 79
      [] c = "Q" -> 81
      [] c = "T" -> 84
      [] c = "U" -> 85
      [] c = "_" -> 95
      [] c = "a" -> 97
      [] c = "b" -> 98
      [] c = "c" -> 99
      [] c = "d" -> 100
      [] c = "e" -> 101
      [] c = "n" -> 110
      [] c = "o" -> 111
      [] c = "t" -> 116

\* c in s
Contains(s, c) == \E i \in 1..Len(s) : s[i] = c

Drop(s, n) == SubSeq(s, n + 1, Len(s))

RECURSIVE LStrip(_)
LStrip(s) == IF s # <<>> /\ Head(s) \in Whitespace THEN LStrip(Tail(s)) ELSE s

RECURSIVE RStrip(_)
RStrip(s) ==
    IF s # <<>> /\ s[Len(s)] \in Whitespace
    THEN RStrip(SubSeq(s, 1, Len(s) - 1))
    ELSE s

\* s.strip()
Strip(s) == RStrip(LStrip(s))

\* a >= b on str: code point order, a proper prefix is smaller
RECURSIVE StrGE(_, _)
StrGE(a, b) ==
    IF b = <<>> THEN TRUE
    ELSE IF a = <<>> THEN FALSE
    ELSE IF Head(a) # Head(b) THEN Ord(Head(a)) > Ord(Head(b))
    ELSE StrGE(Tail(a), Tail(b))

\* str(n) for n >= 0
RECURSIVE IntToStr(_)
IntToStr(n) ==
    IF n < 10 THEN <<Digits[n + 1]>>
    ELSE IntToStr(n \div 10) \o <<Digits[(n % 10) + 1]>>

RECURSIVE ZeroPad(_, _)
ZeroPad(s, width) == IF Len(s) >= width THEN s ELSE ZeroPad(<<"0">> \o s, width)

-----------------------------------------------------------------------------
(* datetime.strptime / strftime as _validate_filter uses them *)

ParseError == [error |-> "ValueError"]

\* %Y is \d\d\d\d: the number of characters it consumes, 0 when it fails
YearLen(s) == IF Len(s) >= 4 /\ \A i \in 1..4 : IsDigit(s[i]) THEN 4 ELSE 0

YearVal(s) ==
    1000 * DigitVal(s[1]) + 100 * DigitVal(s[2]) + 10 * DigitVal(s[3]) + DigitVal(s[4])

\* %m is 1[0-2]|0[1-9]|[1-9], alternatives tried in that order, not anchored
\* at the end: the number of characters it consumes, 0 when it fails
MonthLen(s) ==
    IF Len(s) >= 2 /\ s[1] = "1" /\ s[2] \in {"0", "1", "2"} THEN 2
    ELSE IF Len(s) >= 2 /\ s[1] = "0" /\ IsDigit(s[2]) /\ s[2] # "0" THEN 2
    ELSE IF Len(s) >= 1 /\ IsDigit(s[1]) /\ s[1] # "0" THEN 1
    ELSE 0

MonthVal(s) ==
    IF MonthLen(s) = 2 THEN 10 * DigitVal(s[1]) + DigitVal(s[2]) ELSE DigitVal(s[1])

\* datetime.strptime(s, "%Y" + sep + "%m"), sep a str of length 0 or 1:
\* [year, month], or ParseError where strptime raises ValueError
Strptime(s, sep) ==
    LET afterYear == Drop(s, 4)
        sepOk == Len(afterYear) >= Len(sep) /\ SubSeq(afterYear, 1, Len(sep)) = sep
        rest == Drop(afterYear, Len(sep))
    IN  IF YearLen(s) = 0 \/ ~sepOk \/ MonthLen(rest) = 0 THEN ParseError
        ELSE IF MonthLen(rest) # Len(rest) THEN ParseError \* unconverted data remains
        ELSE IF YearVal(s) = 0 THEN ParseError            \* year 0 is out of range
        ELSE [year |-> YearVal(s), month |-> MonthVal(rest)]

\* dt.strftime("%Y/%m"): %m is always two digits; %Y is the C library's,
\* which pads to four digits on some platforms and not on others (glibc)
Strftime(dt, pads) ==
    (IF pads THEN ZeroPad(IntToStr(dt.year), 4) ELSE IntToStr(dt.year))
        \o <<"/">> \o ZeroPad(IntToStr(dt.month), 2)

Sentinel == <<"2", "0", "0", "0", "/", "0", "1">>

\* the shape _validate_filter picks by separator presence
Parsed(f) ==
    IF Contains(f, "/") THEN Strptime(f, <<"/">>)
    ELSE IF Contains(f, "-") THEN Strptime(f, <<"-">>)
    ELSE Strptime(f, <<>>)

_validate_filter(f, pads) ==
    IF Parsed(f) = ParseError THEN Sentinel ELSE Strftime(Parsed(f), pads)

-----------------------------------------------------------------------------
(* Values shared by the specifications *)

NoCall == [called |-> FALSE]

NoRequest == [kind |-> "none"]

Idle == [pc |-> "idle"]

\* one worker thread serving /api/series, one serving the dashboard callback
ApiThread == "api"
DashThread == "dash"
Threads == {ApiThread, DashThread}

\* Python str values written as character sequences
S_abc == <<"a", "b", "c">>
S_2005_01 == <<"2", "0", "0", "5", "/", "0", "1">>
S_2005d01 == <<"2", "0", "0", "5", "-", "0", "1">>
S_200501 == <<"2", "0", "0", "5", "0", "1">>
S_2009_06 == <<"2", "0", "0", "9", "/", "0", "6">>
S_2010_01 == <<"2", "0", "1", "0", "/", "0", "1">>
S_2010_03 == <<"2", "0", "1", "0", "/", "0", "3">>
S_not_a_date == <<"n", "o", "t", "-", "a", "-", "d", "a", "t", "e">>

-----------------------------------------------------------------------------
(* The upstream reply as rq.get and resp.json() deliver it *)

\* JSON values, tagged with their type
JNull == [t |-> "null"]

JArray(items) == [t |-> "array", items |-> items]

JObject(fields) == [t |-> "object", fields |-> fields]

\* an exception raised while walking the document
Raised == [t |-> "raised"]

\* x.get(key): AttributeError unless x is a dict, None when the key is absent
DictGet(x, key) ==
    IF x.t # "object" THEN Raised
    ELSE IF key \in DOMAIN x.fields THEN x.fields[key]
    ELSE JNull

\* x[0]: TypeError on None, KeyError on a dict, IndexError on an empty list
Index0(x) == IF x.t = "array" /\ x.items # <<>> THEN x.items[1] ELSE Raised

\* data.get("Series")[0].get("OBSERVATIONS")
ExtractObservations(data) == DictGet(Index0(DictGet(data, "Series")), "OBSERVATIONS")

\* pd.DataFrame(series), its rows: no rows for None, one row per observation
DataFrame(series) == IF series = JNull THEN <<>> ELSE series.items

\* literals pd.to_numeric accepts among the raw OBS_VALUE texts of the model
NumericLiterals == {"100.5", "97.0", "98.2"}

\* pd.to_numeric(v, errors="coerce")
ToNumeric(v) == IF v \in NumericLiterals THEN v ELSE "NaN"

\* df.sort_values(by="TIME_PERIOD"): rows in ascending TIME_PERIOD order
RECURSIVE SortByPeriod(_)
SortByPeriod(rows) ==
    IF rows = <<>> THEN <<>>
    ELSE LET least == CHOOSE i \in 1..Len(rows) :
                          \A j \in 1..Len(rows) :
                              /\ StrGE(rows[j].TIME_PERIOD, rows[i].TIME_PERIOD)
                              /\ (rows[j].TIME_PERIOD = rows[i].TIME_PERIOD => i <= j)
             others == [j \in 1..(Len(rows) - 1) |->
                           IF j < least THEN rows[j] ELSE rows[j + 1]]
         IN  <<rows[least]>> \o SortByPeriod(others)

\* rename_map applied to a row, OBS_VALUE made numeric
Renamed(row) == [periodo |-> row.TIME_PERIOD, valor |-> ToNumeric(row.OBS_VALUE)]

\* the DataFrame _fetch_inegi_series builds from the observations
Tidy(rows) ==
    IF rows = <<>> THEN <<>>
    ELSE LET sorted == SortByPeriod(rows)
         IN  [i \in 1..Len(sorted) |-> Renamed(sorted[i])]

ErrToken == "Falta el token del INEGI"
ErrNetwork == "Error de red al consultar INEGI"
ErrStatus == "INEGI respondio status_code"
ErrJson == "No se pudo decodificar JSON de INEGI"
ErrShape == "Estructura inesperada en la respuesta de INEGI"

Failure(msg) == [ok |-> FALSE, error |-> msg]

S_TOKEN_AQUI == <<"T", "O", "K", "E", "N", "_", "A", "Q", "U", "I">>

\* TokenMissing without the strip and the placeholders
TokenMissingEmptyOnly(token) == token = <<>>

\* not token or token.strip() in {"", "TOKEN_AQUI", "\""}
TokenMissing(token) ==
    token = <<>> \/ Strip(token) \in {<<>>, S_TOKEN_AQUI, <<"\"">>}

\* the body of _fetch_inegi_series after rq.get returned or raised
FetchResult(resp) ==
    IF resp.exc THEN Failure(ErrNetwork)
    ELSE IF resp.status_code # 200 THEN Failure(ErrStatus)
    ELSE IF ~resp.json.valid THEN Failure(ErrJson)
    ELSE LET series == ExtractObservations(resp.json.data)
         IN  IF series = Raised THEN Failure(ErrShape)
             ELSE [ok |-> TRUE, df |-> Tidy(DataFrame(series))]

-----------------------------------------------------------------------------
(* functools.lru_cache(maxsize=256) around _fetch_inegi_series *)

maxsize == 256

CacheKeys(c) == {c[i].key : i \in 1..Len(c)}

CacheIndex(c, key) == CHOOSE i \in 1..Len(c) : c[i].key = key

\* CacheGet answering with the entry stored last, whatever the key
CacheGetLatest(c, key) == c[Len(c)].df

CacheGet(c, key) == c[CacheIndex(c, key)].df

Without(c, i) == SubSeq(c, 1, i - 1) \o SubSeq(c, i + 1, Len(c))


\* CacheHit moving the entry to the least recently used end
CacheHitToFront(c, key) ==
    LET i == CacheIndex(c, key) IN <<c[i]>> \o Without(c, i)

\* a hit moves the entry to the most recently used end
CacheHit(c, key) ==
    LET i == CacheIndex(c, key) IN Append(Without(c, i), c[i])

\* storing a computed result: nothing when another thread stored the key
\* meanwhile, else the oldest entry makes room when the cache is full
CacheStore(c, key, df) ==
    IF key \in CacheKeys(c) THEN c
    ELSE IF Len(c) >= maxsize THEN Append(Tail(c), [key |-> key, df |-> df])
    ELSE Append(c, [key |-> key, df |-> df])

\* CacheAfterCall storing an empty frame for a call that raised
CacheAfterCallAlways(c, key, r) == CacheStore(c, key, IF r.ok THEN r.df ELSE <<>>)

\* the wrapper after the wrapped call: an exception propagates and leaves
\* the cache alone, a returned value is stored
CacheAfterCall(c, key, r) == IF r.ok THEN CacheStore(c, key, r.df) ELSE c

\* the same object in the cache with its rows replaced
CacheWithRows(c, key, df) ==
    IF key \in CacheKeys(c)
    THEN [c EXCEPT ![CacheIndex(c, key)] = [key |-> key, df |-> df]]
    ELSE c

-----------------------------------------------------------------------------
(* get_data *)

\* RowsFrom with the bound excluded
RowsFromStrict(df, filtro_norm) ==
    LET Keep(row) == row.periodo # filtro_norm /\ StrGE(row.periodo, filtro_norm)
    IN  SelectSeq(df, Keep)

\* df[df[col] >= filtro_norm], col "periodo" or else "TIME_PERIOD"
RowsFrom(df, filtro_norm) ==
    LET col == IF "periodo" \in DOMAIN df[1] THEN "periodo" ELSE "TIME_PERIOD"
        Keep(row) == StrGE(row[col], filtro_norm)
    IN  SelectSeq(df, Keep)

\* get_data filtering the fetched object itself, without the copy
get_data_inplace(fetched, filtro, pads) ==
    LET filtro_norm == _validate_filter(filtro, pads)
        rows == IF fetched = <<>> THEN fetched ELSE RowsFrom(fetched, filtro_norm)
    IN  [filtro_norm |-> filtro_norm, result |-> rows, fetched |-> rows]

\* get_data once _fetch_inegi_series returned the object `fetched`: the
\* bound it computed, the frame it returns, and the rows the object
\* `fetched` holds afterwards (get_data works on a copy)
get_data(fetched, filtro, pads) ==
    LET filtro_norm == _validate_filter(filtro, pads)
        df == fetched
    IN  [filtro_norm |-> filtro_norm,
         result |-> IF df = <<>> THEN df ELSE RowsFrom(df, filtro_norm),
         fetched |-> fetched]

\* get_data left by an exception of _fetch_inegi_series
Propagated == [filtro_norm |-> <<>>, result |-> <<>>, fetched |-> <<>>]

-----------------------------------------------------------------------------
(* The two handlers, api_series and actualizar *)

\* what the handler passes to get_data: api_series its query arguments as
\* given, actualizar each of them stripped
Args(kind, indicador, token, filtro) ==
    IF kind = "dash"
    THEN [indicador |-> Strip(indicador), token |-> Strip(token), filtro |-> Strip(filtro)]
    ELSE [indicador |-> indicador, token |-> token, filtro |-> filtro]

\* float(v) if pd.notna(v) else None
PointY(v) == IF v = "NaN" THEN "null" ELSE v

\* the JSON document api_series returns for the frame get_data returned
JsonDocument(indicador, filtro, df, pads) ==
    IF df = <<>>
    THEN [status |-> 200, indicator |-> indicador,
          filtro |-> _validate_filter(filtro, pads), count |-> 0, data |-> <<>>,
          message |-> "Sin datos para los parametros proporcionados"]
    ELSE LET records == [i \in 1..Len(df) |->
                            [x |-> df[i].periodo, y |-> PointY(df[i].valor)]]
         IN  [status |-> 200, indicator |-> indicador,
              filtro |-> _validate_filter(filtro, pads),
              count |-> Len(records), data |-> records]

\* the except branch of api_series
JsonError(msg) == [status |-> 400, error |-> msg]

\* the outputs of actualizar for the frame get_data returned: the points of
\* the figure, the alert and the caption ("" when there is no data)
DashOutputs(indicador, filtro, df, pads) ==
    IF df = <<>>
    THEN [title |-> "Sin datos", points |-> <<>>, color |-> "warning",
          msg |-> "Sin datos para los parametros.", meta |-> [shown |-> FALSE]]
    ELSE [title |-> indicador,
          points |-> [i \in 1..Len(df) |-> [x |-> df[i].periodo, y |-> df[i].valor]],
          color |-> "success", msg |-> Len(df),
          meta |-> [shown |-> TRUE, filtro |-> _validate_filter(filtro, pads)]]

\* the except branch of actualizar
DashError(msg) ==
    [title |-> "Error", points |-> <<>>, color |-> "danger", msg |-> msg,
     meta |-> [shown |-> FALSE]]

NoResponse == [exc |-> FALSE, status_code |-> 0]

\* the record of a finished request. req: the handler's arguments; r: what
\* _fetch_inegi_series returned or raised; gd: what get_data made of it
Finished(req, r, gd, hit, http, resp, pads) ==
    LET a == Args(req.kind, req.indicador, req.token, req.filtro)
    IN  [kind |-> req.kind, key |-> <<a.indicador, a.token>>,
         filtro |-> req.filtro, gd_filtro |-> a.filtro,
         applied |-> gd.filtro_norm,
         ok |-> r.ok, hit |-> hit, http |-> http, resp |-> resp,
         error |-> IF r.ok THEN "" ELSE r.error,
         source |-> IF r.ok THEN r.df ELSE <<>>,
         data |-> gd.result,
         out |-> IF req.kind = "api"
                 THEN IF r.ok
                      THEN JsonDocument(req.indicador, req.filtro, gd.result, pads)
                      ELSE JsonError(r.error)
                 ELSE IF r.ok
                      THEN DashOutputs(req.indicador, req.filtro, gd.result, pads)
                      ELSE DashError(r.error),
         repeat |-> /\ last.kind # "none"
                    /\ last.key = <<a.indicador, a.token>>]

\* a use of key: it becomes the most recently used
Used(rec, key) ==
    LET Other(k) == k # key IN Append(SelectSeq(rec, Other), key)

\* A handler runs up to the point where its thread blocks: get_data
\* normalises the filter, the lru_cache wrapper looks the key up, and on a
\* miss _fetch_inegi_series checks the token and calls rq.get.
Handle(t, req) ==
    /\ LET a == Args(req.kind, req.indicador, req.token, req.filtro)
           key == <<a.indicador, a.token>>
       IN  IF key \in CacheKeys(cache)
           THEN LET fetched == CacheGet(cache, key)
                    gd == get_data(fetched, a.filtro, padsYear)
                IN  /\ cache' = CacheWithRows(CacheHit(cache, key), key, gd.fetched)
                    /\ recency' = Used(recency, key)
                    /\ last' = Finished(req, [ok |-> TRUE, df |-> fetched], gd,
                                        TRUE, FALSE, NoResponse, padsYear)
                    /\ UNCHANGED thr
           ELSE IF TokenMissing(a.token)
           THEN /\ last' = Finished(req, Failure(ErrToken), Propagated,
                                    FALSE, FALSE, NoResponse, padsYear)
                /\ UNCHANGED <<cache, recency, thr>>
           ELSE /\ thr' = [thr EXCEPT ![t] = [pc |-> "net", req |-> req]]
                /\ UNCHANGED <<cache, recency, last>>
    /\ UNCHANGED <<padsYear, typed, validated>>

\* GET /api/series?indicador=..&token=..&filtro=..
api_series(t, indicador, token, filtro) ==
    /\ thr[t].pc = "idle"
    /\ Handle(t, [kind |-> "api", indicador |-> indicador, token |-> token,
                  filtro |-> filtro])

\* the dashboard callback
actualizar(t, indicador, token, filtro) ==
    /\ thr[t].pc = "idle"
    /\ Handle(t, [kind |-> "dash", indicador |-> indicador, token |-> token,
                  filtro |-> filtro])

\* rq.get returns resp (or raises) in thread t: _fetch_inegi_series finishes,
\* the wrapper stores a returned frame, get_data filters it and the handler
\* answers
HttpReply(t, resp) ==
    /\ thr[t].pc = "net"
    /\ LET req == thr[t].req
           a == Args(req.kind, req.indicador, req.token, req.filtro)
           key == <<a.indicador, a.token>>
           r == FetchResult(resp)
           stored == CacheAfterCall(cache, key, r)
           gd == IF r.ok THEN get_data(r.df, a.filtro, padsYear) ELSE Propagated
       IN  /\ cache' = IF r.ok /\ key \notin CacheKeys(cache)
                       THEN CacheWithRows(stored, key, gd.fetched)
                       ELSE stored
           /\ recency' = IF key \in CacheKeys(stored) \ CacheKeys(cache)
                         THEN Used(recency, key)
                         ELSE recency
           /\ last' = Finished(req, r, gd, FALSE, TRUE, resp, padsYear)
    /\ thr' = [thr EXCEPT ![t] = Idle]
    /\ UNCHANGED <<padsYear, typed, validated>>

-----------------------------------------------------------------------------
(* Specification Spec: an API request and a dashboard callback at a time *)

Indicadores == {<<"1">>, <<"2">>}

Tokens == {S_abc, <<>>, <<" ">>, S_TOKEN_AQUI, <<"\"">>}

Filtros == {S_2005_01, S_2010_01 \o <<" ">>}

Obs(period, value) == [TIME_PERIOD |-> period, OBS_VALUE |-> value]

Http(status_code, json) == [exc |-> FALSE, status_code |-> status_code, json |-> json]

Json(data) == [valid |-> TRUE, data |-> data]

SeriesDoc(first) == Json(JObject([Series |-> JArray(<<JObject(first)>>)]))

ObservationsA == <<Obs(S_2010_03, "bad"), Obs(S_2009_06, "100.5")>>

ObservationsB == <<Obs(S_2010_01, "98.2"), Obs(S_2005_01, "97.0")>>

Responses ==
    {[exc |-> TRUE, status_code |-> 0],
     Http(503, [valid |-> FALSE]),
     Http(200, [valid |-> FALSE]),
     Http(200, Json(JObject([ErrorInfo |-> JNull]))),
     Http(200, Json(JObject([Series |-> JArray(<<>>)]))),
     Http(200, SeriesDoc([INDICADOR |-> JNull])),
     Http(200, SeriesDoc([OBSERVATIONS |-> JArray(<<>>)])),
     Http(200, SeriesDoc([OBSERVATIONS |-> JArray(ObservationsA)])),
     Http(200, SeriesDoc([OBSERVATIONS |-> JArray(ObservationsB)]))}

Init ==
    /\ padsYear \in BOOLEAN
    /\ typed = <<>>
    /\ validated = NoCall
    /\ cache = <<>>
    /\ recency = <<>>
    /\ thr = [t \in Threads |-> Idle]
    /\ last = NoRequest

Next ==
    \/ \E i \in Indicadores, tok \in Tokens, f \in Filtros :
           api_series(ApiThread, i, tok, f)
    \/ \E i \in Indicadores, tok \in Tokens, f \in Filtros :
           actualizar(DashThread, i, tok, f)
    \/ \E t \in Threads, resp \in Responses : HttpReply(t, resp)

Spec == Init /\ [][Next]_vars

-----------------------------------------------------------------------------
(* Specification SpecLRU: more distinct keys than the cache holds.  A client
   walks the indicators 1, 2, 3, ... once each, in order, and asks for the
   indicator 910407 again whenever it likes; every series is empty. *)

\* how many indicators the client walks
NumWalked == 257

S_910407 == <<"9", "1", "0", "4", "0", "7">>

EmptySeries == Http(200, SeriesDoc([OBSERVATIONS |-> JArray(<<>>)]))

\* the indicators walked so far have all been looked up
WalkedSoFar ==
    IF \E i \in 1..Len(recency) : recency[i][1] = S_910407
    THEN Len(recency) - 1
    ELSE Len(recency)

NextWalked == IF WalkedSoFar < NumWalked THEN {IntToStr(WalkedSoFar + 1)} ELSE {}

NextLRU ==
    \/ \E i \in NextWalked \cup {S_910407} :
           api_series(ApiThread, i, S_abc, S_2005_01)
    \/ HttpReply(ApiThread, EmptySeries)

SpecLRU == Init /\ [][NextLRU]_vars

-----------------------------------------------------------------------------
(* Specification SpecFilter: _validate_filter on typed filter texts *)

\* longest filter text typed character by character
MaxLen == 7

TypedChars == {"0", "1", "3", "/", "-"}

\* texts the box can hold before typing goes on: empty, the dashboard's
\* default, and texts with characters outside TypedChars
Prefilled ==
    {<<>>, S_2005_01, S_2005d01, S_200501, S_not_a_date, <<" ">>,
     S_2010_01 \o <<" ">>}

InitFilter ==
    /\ padsYear \in BOOLEAN
    /\ typed \in Prefilled
    /\ validated = NoCall
    /\ cache = <<>>
    /\ recency = <<>>
    /\ thr = [t \in Threads |-> Idle]
    /\ last = NoRequest

\* the user types one more character into the filter box
TypeChar(c) ==
    /\ Len(typed) < MaxLen
    /\ typed' = Append(typed, c)
    /\ validated' = NoCall
    /\ UNCHANGED <<padsYear, cache, recency, thr, last>>

\* _validate_filter(typed) is called
ValidateTyped ==
    /\ validated = NoCall
    /\ validated' = [called |-> TRUE, result |-> _validate_filter(typed, padsYear)]
    /\ UNCHANGED <<padsYear, typed, cache, recency, thr, last>>

NextFilter ==
    \/ \E c \in TypedChars : TypeChar(c)
    \/ ValidateTyped

SpecFilter == InitFilter /\ [][NextFilter]_vars

\* what the contract promises for a date: four-digit year, two-digit month
YYYYMM(dt) == ZeroPad(IntToStr(dt.year), 4) \o <<"/">> \o ZeroPad(IntToStr(dt.month), 2)

\* C1: _validate_filter returns the zero-padded YYYY/MM of the date when the
\* input parses under the shape its separator selects, and the sentinel
\* "2000/01" on every parse failure.
C1_ValidateContract ==
    validated.called =>
        validated.result =
            (IF Parsed(typed) = ParseError THEN Sentinel ELSE YYYYMM(Parsed(typed)))

\* C2: _validate_filter is idempotent: normalising a value it returned gives
\* that value back.
C2_Idempotent ==
    validated.called =>
        _validate_filter(validated.result, padsYear) = validated.result

-----------------------------------------------------------------------------
(* Claims about the pipeline, checked under Spec *)

\* the frames the cache holds under key
FramesOf(c, key) == {c[i].df : i \in {j \in 1..Len(c) : c[j].key = key}}

KeysOf(c) == {c[i].key : i \in 1..Len(c)}

\* a handler answered in this step: at once, or when its rq.get came back
Answered ==
    \/ last' # last
    \/ \E t \in Threads : thr[t].pc = "net" /\ thr'[t].pc = "idle"

\* the j-th smallest member of a set of indices
Nth(idx, j) == CHOOSE i \in idx : Cardinality({k \in idx : k <= i}) = j

\* C3: get_data returns exactly the observations of the series whose period
\* is >= the normalised filter, in their original order; nothing from an
\* empty series.
C3_FilterExact ==
    (last.kind # "none" /\ last.ok) =>
        LET s == last.source
            bound == _validate_filter(last.gd_filtro, padsYear)
            idx == {i \in 1..Len(s) : StrGE(s[i].periodo, bound)}
        IN  /\ Len(last.data) = Cardinality(idx)
            /\ \A j \in 1..Len(last.data) : last.data[j] = s[Nth(idx, j)]
            /\ (last.hit => FramesOf(cache, last.key) = {s})

\* a get_data call dropped one observation and kept one that equals the bound
C3_Witness ==
    /\ last.kind # "none" /\ last.ok
    /\ last.data # <<>>
    /\ Len(last.data) < Len(last.source)
    /\ \E i \in 1..Len(last.data) : last.data[i].periodo = last.applied

\* the tokens C4 names: empty, whitespace only, "TOKEN_AQUI", a bare quote
BlankOrPlaceholder(token) ==
    Strip(token) = <<>> \/ token = S_TOKEN_AQUI \/ token = <<"\"">>

\* C4: a fetch with a blank or placeholder token fails with the missing
\* token error and no HTTP request, every time it is made; no thread is ever
\* in rq.get with such a token and no such key is cached.
C4_MissingToken ==
    /\ (last.kind # "none" /\ BlankOrPlaceholder(last.key[2])) =>
           ~last.ok /\ last.error = ErrToken /\ ~last.http /\ ~last.hit
    /\ \A t \in Threads :
           thr[t].pc = "net" =>
               ~BlankOrPlaceholder(Args(thr[t].req.kind, thr[t].req.indicador,
                                        thr[t].req.token, thr[t].req.filtro).token)
    /\ \A k \in KeysOf(cache) : ~BlankOrPlaceholder(k[2])

\* the same blank-token fetch was made twice in a row and failed again
C4_Witness ==
    /\ last.kind # "none" /\ last.repeat
    /\ BlankOrPlaceholder(last.key[2])
    /\ ~last.ok /\ ~last.http

\* C5: a fetch whose key is cached is answered from the cache, with the
\* cached series and without an HTTP request; a fetch whose key is not
\* cached is answered without HTTP only by the missing-token error.
C5_CacheHit ==
    [][/\ \A t \in Threads :
              (thr[t].pc = "idle" /\ thr'[t].pc = "net") =>
                  <<Args(thr'[t].req.kind, thr'[t].req.indicador,
                         thr'[t].req.token, thr'[t].req.filtro).indicador,
                    Args(thr'[t].req.kind, thr'[t].req.indicador,
                         thr'[t].req.token, thr'[t].req.filtro).token>>
                      \notin KeysOf(cache)
       /\ (last' # last /\ thr' = thr) =>
              IF last'.key \in KeysOf(cache)
              THEN /\ last'.ok /\ last'.hit /\ ~last'.http
                   /\ FramesOf(cache, last'.key) = {last'.source}
              ELSE ~last'.ok /\ last'.error = ErrToken /\ ~last'.http
      ]_vars

\* a cache hit on one indicator while a fetch of another indicator with the
\* same token is in rq.get
C5_Witness ==
    /\ last.kind # "none" /\ last.hit /\ last.source # <<>>
    /\ \E t \in Threads :
           /\ thr[t].pc = "net"
           /\ thr[t].req.token = last.key[2]
           /\ Strip(thr[t].req.indicador) # last.key[1]

\* C6: a fetch that fails leaves the cache as it was, and a failure is never
\* answered from the cache.
C6_FailuresNotCached ==
    [][(Answered /\ ~last'.ok) => (cache' = cache /\ ~last'.hit)]_vars

\* a fetch failed after its HTTP request while another key was cached, and
\* its own key is not cached
C6_Witness ==
    /\ last.kind # "none" /\ ~last.ok /\ last.http
    /\ last.error = ErrShape
    /\ cache # <<>>
    /\ last.key \notin KeysOf(cache)

\* the shape the fetcher expects: an object whose "Series" is a non-empty
\* array whose first element is an object with an "OBSERVATIONS" key
ExpectedShape(data) ==
    /\ data.t = "object"
    /\ "Series" \in DOMAIN data.fields
    /\ data.fields.Series.t = "array"
    /\ data.fields.Series.items # <<>>
    /\ data.fields.Series.items[1].t = "object"
    /\ "OBSERVATIONS" \in DOMAIN data.fields.Series.items[1].fields

\* C8: a 200 reply with valid JSON of another shape makes the fetch fail
\* with the schema error; it yields no series.
C8_SchemaError ==
    (/\ last.kind # "none" /\ last.http
     /\ ~last.resp.exc /\ last.resp.status_code = 200
     /\ last.resp.json.valid
     /\ ~ExpectedShape(last.resp.json.data)) =>
        ~last.ok /\ last.error = ErrShape

\* C9: get_data never changes a cached series: an entry that stays in the
\* cache keeps its observations, in their order.
C9_CacheImmutable ==
    [][\A i \in 1..Len(cache) :
           cache[i].key \in KeysOf(cache') =>
               FramesOf(cache', cache[i].key) = {cache[i].df}]_vars

\* a repeated get_data on a cached key dropped observations, and the cache
\* still holds them all
C9_Witness ==
    /\ last.kind # "none" /\ last.hit /\ last.repeat
    /\ Len(last.data) < Len(last.source)
    /\ FramesOf(cache, last.key) = {last.source}

\* the filter a handler reports: "filtro" of the JSON document, "Filtro:" of
\* the dashboard caption
Reports(l) ==
    IF l.kind = "api" THEN l.out.status = 200 ELSE l.out.meta.shown

Reported(l) == IF l.kind = "api" THEN l.out.filtro ELSE l.out.meta.filtro

\* C10: the normalised filter a handler reports is the bound get_data
\* applied to the observations of that response.
C10_ReportedIsApplied ==
    (last.kind # "none" /\ Reports(last)) => Reported(last) = last.applied

-----------------------------------------------------------------------------
(* Claim about the cache bound, checked under SpecLRU *)

\* the key among keys that was used longest ago
LeastRecentlyUsed(rec, keys) ==
    rec[CHOOSE i \in 1..Len(rec) :
            rec[i] \in keys /\ \A j \in 1..(i - 1) : rec[j] \notin keys]

\* C7: the cache never holds more than 256 keys, each once; a key leaves it
\* only when a new key is stored in a full cache, and the key that leaves is
\* the least recently used one, a hit counting as a use.
C7_LruBound ==
    [][/\ Len(cache') <= maxsize
       /\ Cardinality(KeysOf(cache')) = Len(cache')
       /\ \A k \in KeysOf(cache) \ KeysOf(cache') :
              /\ Len(cache) = maxsize
              /\ KeysOf(cache') \ KeysOf(cache) # {}
              /\ k = LeastRecentlyUsed(recency, KeysOf(cache))
      ]_vars

\* the cache is full, indicator 1 was stored and has been evicted, and
\* 910407 has just been answered from the cache
C7_Witness ==
    /\ Len(cache) = maxsize
    /\ last.kind # "none" /\ last.hit /\ last.key = <<S_910407, S_abc>>
    /\ cache[Len(cache)].key = <<S_910407, S_abc>>
    /\ <<IntToStr(1), S_abc>> \notin KeysOf(cache)
    /\ \E i \in 1..Len(recency) : recency[i] = <<IntToStr(1), S_abc>>

====
